---- MODULE Spec2Model ----
(***************************************************************************)
(* Model of the Redis-stream-to-AWS-Lambda bridge (src/main.go).           *)
(*                                                                         *)
(* The process is one sequential program: it parses its environment,       *)
(* ensures the consumer group on every configured stream, then loops       *)
(* forever: XREADGROUP, and for every returned message Invoke + XACK.      *)
(* The Redis server and the Lambda service are the environment: the model  *)
(* keeps the server's streams, group cursors and pending lists, and draws  *)
(* the outcome of every remote call from the outcomes the call can have.   *)
(* A remote call that fails because the server is unreachable has no       *)
(* effect on the server.                                                   *)
(*                                                                         *)
(* Strings that the program takes apart (REDIS_STREAMS, the STREAMS        *)
(* argument of XREADGROUP) are sequences of one-character strings.         *)
(***************************************************************************)
EXTENDS Integers, Sequences, FiniteSets, TLC

(***************************************************************************)
(* Bounds of the model.                                                    *)
(***************************************************************************)
\* longest value of REDIS_STREAMS, in characters
MaxEnvLen == 3
\* most entries one stream ever holds
MaxMsgs == 2
\* most entries a stream holds before the process starts
MaxInitLen == 1
\* most consecutive XREADGROUP calls that find the server unreachable
MaxOutage == 2
\* most times the process is killed
MaxKills == 1
\* longest key or value of a message's field mapping, in characters
MaxFieldLen == 1
\* most fields of a message
MaxFields == 2
\* most undelivered messages of a stream when one claim call is looked at
MaxBacklog == 11
\* longest REDIS_STREAMS value when two instances run side by side
MaxEnvLenTwo == 1

(***************************************************************************)
(* Program constants.                                                      *)
(***************************************************************************)
\* XReadGroupArgs.Block: 0 blocks until an entry is available
Block == 0

\* Count left at its zero value, as Block is: no COUNT is sent
CountUnset == Block

\* XReadGroupArgs.Count
Count == 10
\* the special ID ">" of XREADGROUP: entries never delivered to the group
GT == <<">">>
\* separator of REDIS_STREAMS
Comma == ","

\* characters a REDIS_STREAMS value is made of in this model
Alphabet == {"a", Comma}

EnvStrings == UNION {[1..n -> Alphabet] : n \in 0..MaxEnvLen}

(***************************************************************************)
(* Pure functions of the program.                                          *)
(***************************************************************************)
Range(s) == {s[i] : i \in 1..Len(s)}

\* strings.Split(s, sep) for a one-character separator
RECURSIVE Split(_, _)
Split(s, sep) ==
    IF \A i \in 1..Len(s) : s[i] # sep
    THEN <<s>>
    ELSE LET i == CHOOSE j \in 1..Len(s) :
                      s[j] = sep /\ \A h \in 1..(j - 1) : s[h] # sep
         IN  <<SubSeq(s, 1, i - 1)>> \o Split(SubSeq(s, i + 1, Len(s)), sep)

splitStreams(s) == Split(s, Comma)

\* the pending history asked for instead of the undelivered entries
StreamsArgHistory(list) == Append(list, <<"0">>)

\* Streams: append(streamList, ">")
StreamsArg(list) == Append(list, GT)

\* the group created at the first entry of the stream
GroupStartZero == <<"0">>

\* ensureConsumerGroupExists, line 91: the start argument "$" of the group
GroupStart == <<"$">>

\* the claim made with NoAck: true
NoAckSet == TRUE

\* main, lines 41-47: XReadGroupArgs.NoAck is not set
NoAck == FALSE


\* invokeLambda returns the error of lambdaClient.Invoke and nothing else:
\* the StatusCode and FunctionError of a response are only logged
invokeLambda(o) == IF o.err THEN "err" ELSE "nil"

(***************************************************************************)
(* The environment's replies.                                              *)
(***************************************************************************)
ConnErr == "dial tcp: connection refused"
BusyGroupErr == "BUSYGROUP Consumer Group name already exists"
UnbalancedErr == "ERR Unbalanced 'xreadgroup' list of streams"
InvalidIDErr == "ERR Invalid stream ID specified as stream command argument"
NoGroupErr == "NOGROUP No such key or consumer group"

\* the error compared with the error code alone
IsBusyGroupExact(err) == err = "BUSYGROUP"

\* strings.Contains(err.Error(), "BUSYGROUP Consumer Group name already exists")
IsBusyGroup(err) == err = BusyGroupErr

\* what lambdaClient.Invoke can return: a transport or service error, or a
\* response carrying a status code and possibly a function error
InvokeOutcomes ==
    { [err |-> TRUE,  StatusCode |-> 0,   FunctionError |-> FALSE],
      [err |-> FALSE, StatusCode |-> 200, FunctionError |-> FALSE],
      [err |-> FALSE, StatusCode |-> 200, FunctionError |-> TRUE],
      [err |-> FALSE, StatusCode |-> 500, FunctionError |-> FALSE] }

\* one key of the server without a stream
NoStream == [exists |-> FALSE, len |-> 0, group |-> FALSE, last |-> 0, pel |-> {}]

\* a stream ID written as a number of milliseconds
Digits == <<"0", "1", "2", "3", "4", "5", "6", "7", "8", "9">>
IsStreamID(s) ==
    Len(s) > 0 /\ \A j \in 1..Len(s) : \E d \in 1..10 : s[j] = Digits[d]

RECURSIVE StreamIDValue(_)
StreamIDValue(s) ==
    IF s = <<>> THEN 0
    ELSE 10 * StreamIDValue(SubSeq(s, 1, Len(s) - 1))
         + ((CHOOSE d \in 1..10 : s[Len(s)] = Digits[d]) - 1)

\* XGROUP CREATE key group start MKSTREAM on one key of the server; start
\* is "$", the last entry of the stream, or an ID
XGroupCreateMkStream(r, start) ==
    IF r.group
    THEN [err |-> BusyGroupErr, key |-> r]
    ELSE IF start # <<"$">> /\ ~IsStreamID(start)
    THEN [err |-> InvalidIDErr, key |-> r]
    ELSE [err |-> "",
          key |-> [exists |-> TRUE, len |-> r.len, group |-> TRUE,
                   last |-> IF start = <<"$">> THEN r.len
                            ELSE IF StreamIDValue(start) < r.len
                                 THEN StreamIDValue(start) ELSE r.len,
                   pel |-> {}]]

\* the c lowest IDs of S, all of S when no COUNT is sent (c = 0)
Lowest(S, c) ==
    IF c <= 0 THEN S
    ELSE {n \in S : Cardinality({h \in S : h < n}) < c}

\* the entries of one key that XREADGROUP ... COUNT c ... > delivers
NewIDs(r, c) == Lowest((r.last + 1)..r.len, c)

\* the entries of one key that XREADGROUP ... COUNT c ... <id> returns: the
\* pending entries after id, which stay as they are
HistoryIDs(r, id, c) == Lowest({n \in r.pel : n > StreamIDValue(id)}, c)

SetToSeq(S) ==
    LET F[T \in SUBSET S] ==
            IF T = {} THEN <<>>
            ELSE LET m == CHOOSE x \in T : \A y \in T : x <= y
                 IN  <<m>> \o F[T \ {m}]
    IN  F[S]

\* how the server reads the words after STREAMS: the first half are keys,
\* the second half the ID to read each key from
ParseStreams(args) ==
    LET n == Len(args) \div 2
    IN  [balanced |-> Len(args) % 2 = 0,
         keys     |-> SubSeq(args, 1, n),
         ids      |-> SubSeq(args, n + 1, 2 * n)]

\* XREADGROUP GROUP g consumer-1 COUNT c BLOCK 0 [NOACK] STREAMS args on
\* server db: the error of the call, or "" and the stream entries with the
\* new server. The server takes the first half of args as keys and the
\* second half as IDs. A key read from ">" gets its undelivered entries,
\* which become pending unless NOACK is sent, and is left out of the reply
\* when it has none; a key read from an ID gets its pending entries after
\* that ID.
XReadGroup(db, args, c, noack) ==
    LET n    == Len(args) \div 2
        keys == ParseStreams(args).keys
        ids  == ParseStreams(args).ids
        got(j) == IF ids[j] = GT THEN NewIDs(db[keys[j]], c)
                  ELSE HistoryIDs(db[keys[j]], ids[j], c)
        has(j) == ids[j] # GT \/ got(j) # {}
        idx  == SelectSeq([j \in 1..n |-> j], has)
        new(k) == UNION {NewIDs(db[k], c) : j \in {h \in 1..n : keys[h] = k /\ ids[h] = GT}}
    IN  IF ~ParseStreams(args).balanced
        THEN [err |-> UnbalancedErr, entries |-> <<>>, db |-> db]
        ELSE IF \E j \in 1..n : keys[j] \notin DOMAIN db \/ ~db[keys[j]].group
        THEN [err |-> NoGroupErr, entries |-> <<>>, db |-> db]
        ELSE IF \E j \in 1..n : ids[j] # GT /\ ~IsStreamID(ids[j])
        THEN [err |-> InvalidIDErr, entries |-> <<>>, db |-> db]
        ELSE [err |-> "",
              entries |-> [j \in 1..Len(idx) |->
                             [Stream   |-> keys[idx[j]],
                              Messages |-> SetToSeq(got(idx[j]))]],
              db |-> [k \in DOMAIN db |->
                        [db[k] EXCEPT
                           !.last = db[k].last + Cardinality(new(k)),
                           !.pel  = IF noack THEN db[k].pel
                                    ELSE db[k].pel \cup new(k)]]]

\* XACK key group id on one key of the server
XAck(r, id) == [r EXCEPT !.pel = r.pel \ {id}]

(***************************************************************************)
(* State.                                                                  *)
(***************************************************************************)
VARIABLES
    streams,     \* value of REDIS_STREAMS
    streamList,  \* main: streamList
    pc,          \* where main is
    i,           \* main: index of the stream whose group is being ensured
    entries,     \* main: entries returned by the last XReadGroup
    ei,          \* main: index of entry in entries
    mi,          \* main: index of message in entry.Messages
    redis,       \* the server: per key, stream length, group cursor, pending
    out,         \* log lines written by the last step of main
    outage,      \* consecutive XReadGroup calls that found no server
    ensured,     \* history: the server's answers to ensure-group, in order
    reads,       \* history: number of XReadGroup calls issued, capped at 1
    claimed,     \* history: messages returned to main by XReadGroup
    invoked,     \* history: invocations started, per message
    response,    \* history: what Invoke returned, per message
    acks,        \* history: XAck calls issued and their result, per message
    acked,       \* history: messages the server removed from pending on XACK
    inflight,    \* invocations started and not returned
    trace,       \* history: messages of the current batch in invocation order
    created,     \* history: per key, the stream length when main created the group
    kills,       \* number of times the process was killed
    lost,        \* history: messages claimed and unacknowledged at a kill
    peer,        \* a second instance of the process: its place and history
    fields,      \* field mappings of two messages
    payload,     \* the payloads invokeLambda makes of them
    backlog,     \* a server with entries waiting, for one claim call
    batch        \* the reply of that claim call

vars == <<streams, streamList, pc, i, entries, ei, mi, redis, out, outage,
          ensured, reads, claimed, invoked, response, acks, acked, inflight,
          trace, created, kills, lost, peer, fields, payload, backlog, batch>>

\* what the dispatch of one process alone leaves untouched
side == <<kills, lost, peer, fields, payload, backlog, batch>>

Keys == Range(splitStreams(streams))
Msgs == Keys \X (1..MaxMsgs)

Log(line, stream, id, err) ==
    [line |-> line, stream |-> stream, id |-> id, err |-> err]

\* the messages of entries, in the order main's two loops visit them
RECURSIVE Flatten(_)
Flatten(es) ==
    IF es = <<>> THEN <<>>
    ELSE [j \in 1..Len(es[1].Messages) |-> <<es[1].Stream, es[1].Messages[j]>>]
         \o Flatten(Tail(es))

\* first position of the loops of lines 55-56 at or after entry e
RECURSIVE FirstFrom(_, _)
FirstFrom(es, e) ==
    IF e > Len(es) THEN <<0, 0>>
    ELSE IF Len(es[e].Messages) > 0 THEN <<e, 1>>
    ELSE FirstFrom(es, e + 1)

\* the inner loop left after the first message of an entry
NextPosBreak(es, e, m) == FirstFrom(es, e + 1)

\* position after (e, m) in the loops of lines 55-56, <<0, 0>> when done
NextPos(es, e, m) ==
    IF m < Len(es[e].Messages) THEN <<e, m + 1>> ELSE FirstFrom(es, e + 1)

Cur == <<entries[ei].Stream, entries[ei].Messages[mi]>>

InitKey ==
    { r \in [exists : BOOLEAN, len : 0..MaxInitLen, group : BOOLEAN,
             last : 0..MaxInitLen, pel : SUBSET (1..MaxInitLen)] :
        /\ ~r.exists => (r.len = 0 /\ ~r.group)
        /\ ~r.group => (r.last = 0 /\ r.pel = {})
        /\ r.last <= r.len
        /\ r.pel \subseteq 1..r.last }

\* no second instance
PeerOff ==
    [pc |-> "off", streamList |-> <<>>, i |-> 0, entries |-> <<>>, ei |-> 0,
     mi |-> 0, out |-> <<>>, claimed |-> {}, invoked |-> {}, succeeded |-> {}, removed |-> {}]

\* one process, never killed, and nothing beside it
SideInit ==
    /\ kills = 0
    /\ lost = {}
    /\ peer = PeerOff
    /\ fields = <<>>
    /\ payload = <<>>
    /\ backlog = <<>>
    /\ batch = <<>>

Init ==
    /\ streams \in EnvStrings
    /\ streamList = <<>>
    /\ pc = "start"
    /\ i = 0
    /\ entries = <<>>
    /\ ei = 0
    /\ mi = 0
    /\ redis \in [Keys -> InitKey]
    /\ out = <<>>
    /\ outage = 0
    /\ ensured = <<>>
    /\ reads = 0
    /\ claimed = {}
    /\ invoked = [m \in Msgs |-> 0]
    /\ response = [m \in Msgs |-> <<>>]
    /\ acks = [m \in Msgs |-> <<>>]
    /\ acked = {}
    /\ inflight = {}
    /\ trace = <<>>
    /\ created = [k \in Keys |-> <<>>]
    /\ SideInit

(***************************************************************************)
(* The decisions main takes on the result of a call.                       *)
(***************************************************************************)
\* every error of XGroupCreateMkStream logged and passed over
EnsureResultLenient(err) == IF err = "" THEN "created" ELSE "exists"

\* ensureConsumerGroupExists: what follows the error of XGroupCreateMkStream
EnsureResult(err) ==
    IF err = "" THEN "created"
    ELSE IF IsBusyGroup(err) THEN "exists"
    ELSE "fatal"

\* main, lines 49-52: what follows the error of XReadGroup
AfterRead(err) == IF err # "" THEN "continue" ELSE "process"

\* the read error handled with log.Fatalf
OnReadErrorFatal == "fatal"

\* main, line 51: where main goes on after a failed XReadGroup (continue)
OnReadError == "read"

\* the acknowledgment taken out of the else branch: every message is acked
AfterInvokeAlways(err) == "ack"

\* lines 64-65 left out: the loop goes on without the XAck
AfterInvokeSkip(err) == "next"

\* the test of line 60 inverted
AfterInvokeInverted(err) == IF err = "nil" THEN "next" ELSE "ack"

\* main, lines 60-66: what follows the error of invokeLambda
AfterInvoke(err) == IF err # "nil" THEN "next" ELSE "ack"

\* line 61 leaving the loops of the batch
OnInvokeErrorBreak == "break"

\* main, lines 60-62: after the log line the loop goes on to the next message
OnInvokeError == "next"

\* main, lines 64-65: the log line after XAck, whose result is dropped
AfterAck(err) == "Message ID acknowledged in consumer group"

(***************************************************************************)
(* Actions.                                                                *)
(***************************************************************************)
history == <<ensured, reads, claimed, invoked, response, acks, acked, trace>>

\* main, lines 20-30: initializeRedisClient and splitStreams
Start ==
    /\ pc = "start"
    /\ \E urlOk \in BOOLEAN :
         IF urlOk
         THEN /\ streamList' = splitStreams(streams)
              /\ i' = 1
              /\ pc' = "ensure"
              /\ out' = <<>>
         ELSE /\ pc' = "fatal"
              /\ out' = <<Log("Failed to parse Redis URL", <<>>, 0, "invalid URL")>>
              /\ UNCHANGED <<streamList, i>>
    /\ UNCHANGED <<side, created, streams, entries, ei, mi, redis, outage, history, inflight>>

\* main, lines 31-33, and ensureConsumerGroupExists
EnsureConsumerGroupExists ==
    /\ pc = "ensure"
    /\ \E up \in BOOLEAN :
         LET k     == streamList[i]
             reply == IF up THEN XGroupCreateMkStream(redis[k], GroupStart)
                      ELSE [err |-> ConnErr, key |-> redis[k]]
             res   == EnsureResult(reply.err)
         IN  /\ redis' = [redis EXCEPT ![k] = reply.key]
             /\ ensured' = Append(ensured, reply.err)
             /\ created' = IF res = "created"
                           THEN [created EXCEPT ![k] = <<redis[k].len>>]
                           ELSE created
             /\ CASE res = "created" ->
                       out' = <<Log("Consumer group created for stream", k, 0, "")>>
                  [] res = "exists" ->
                       out' = <<Log("Consumer group already exists for stream, skipping creation.", k, 0, "")>>
                  [] OTHER ->
                       out' = <<Log("Error creating consumer group", <<>>, 0, reply.err)>>
             /\ IF res = "fatal"
                THEN pc' = "fatal" /\ i' = i
                ELSE IF i < Len(streamList)
                THEN pc' = "ensure" /\ i' = i + 1
                ELSE pc' = "session" /\ i' = i
    /\ UNCHANGED <<side, streams, streamList, entries, ei, mi, outage, reads,
                   claimed, invoked, response, acks, acked, inflight, trace>>

\* main, lines 36-37: session.Must panics when the session cannot be made
AWSSetup ==
    /\ pc = "session"
    /\ \E ok \in BOOLEAN : pc' = IF ok THEN "read" ELSE "panic"
    /\ out' = <<>>
    /\ UNCHANGED <<side, created, streams, streamList, i, entries, ei, mi, redis, outage,
                   history, inflight>>

\* main, lines 41-52: one XReadGroup call. With BLOCK 0 the call returns
\* only when it has entries or fails.
XReadGroupCall ==
    /\ pc = "read"
    /\ \E up \in BOOLEAN :
         LET reply == IF up THEN XReadGroup(redis, StreamsArg(streamList), Count, NoAck)
                      ELSE [err |-> ConnErr, entries |-> <<>>, db |-> redis]
             pos   == FirstFrom(reply.entries, 1)
         IN  /\ ~up => outage < MaxOutage
             /\ reply.err = "" => reply.entries # <<>>
             /\ outage' = IF up THEN 0 ELSE outage + 1
             /\ redis' = reply.db
             /\ reads' = 1
             /\ IF AfterRead(reply.err) = "continue"
                THEN /\ out' = <<Log("Error reading from Redis stream", <<>>, 0, reply.err)>>
                     /\ pc' = OnReadError
                     /\ UNCHANGED <<entries, ei, mi, claimed, trace>>
                ELSE /\ out' = <<>>
                     /\ entries' = reply.entries
                     /\ claimed' = claimed \cup Range(Flatten(reply.entries))
                     /\ trace' = <<>>
                     /\ ei' = pos[1]
                     /\ mi' = pos[2]
                     /\ pc' = IF pos = <<0, 0>> THEN "read" ELSE "invoke"
    /\ UNCHANGED <<side, created, streams, streamList, i, ensured, invoked, response, acks,
                   acked, inflight>>

\* main, lines 57-59, and invokeLambda, lines 106-110: the request is sent
InvokeStart ==
    /\ pc = "invoke"
    /\ out' = <<Log("Processing message ID from stream", Cur[1], Cur[2], "")>>
    /\ invoked' = [invoked EXCEPT ![Cur] = @ + 1]
    /\ inflight' = inflight \cup {Cur}
    /\ trace' = Append(trace, Cur)
    /\ pc' = "invoking"
    /\ UNCHANGED <<side, created, streams, streamList, i, entries, ei, mi, redis, outage,
                   ensured, reads, claimed, response, acks, acked>>

\* invokeLambda, lines 111-117, and main, lines 60-61: Invoke returns
InvokeReturn ==
    /\ pc = "invoking"
    /\ \E o \in InvokeOutcomes :
         LET pos == IF OnInvokeError = "next" THEN NextPos(entries, ei, mi)
                    ELSE <<0, 0>>
         IN  /\ response' = [response EXCEPT ![Cur] = <<o>>]
             /\ inflight' = inflight \ {Cur}
             /\ IF AfterInvoke(invokeLambda(o)) = "ack"
                THEN /\ out' = <<Log("Lambda invoked successfully. StatusCode", <<>>, o.StatusCode, "")>>
                     /\ pc' = "ack"
                     /\ UNCHANGED <<ei, mi>>
                ELSE /\ out' = <<Log("Error invoking Lambda", <<>>, 0, "invoke error")>>
                     /\ ei' = pos[1]
                     /\ mi' = pos[2]
                     /\ pc' = IF pos = <<0, 0>> THEN "read" ELSE "invoke"
    /\ UNCHANGED <<side, created, streams, streamList, i, entries, redis, outage, ensured,
                   reads, claimed, invoked, acks, acked, trace>>

\* main, lines 64-65: XAck, then the log line, then the next message
XAckCall ==
    /\ pc = "ack"
    /\ \E up \in BOOLEAN :
         LET k   == Cur[1]
             id  == Cur[2]
             pos == NextPos(entries, ei, mi)
             err == IF up THEN "" ELSE ConnErr
         IN  /\ redis' = IF up THEN [redis EXCEPT ![k] = XAck(redis[k], id)]
                         ELSE redis
             /\ acked' = IF up /\ id \in redis[k].pel THEN acked \cup {Cur}
                         ELSE acked
             /\ acks' = [acks EXCEPT ![Cur] = Append(@, err)]
             /\ out' = <<Log(AfterAck(err), <<>>, id, "")>>
             /\ ei' = pos[1]
             /\ mi' = pos[2]
             /\ pc' = IF pos = <<0, 0>> THEN "read" ELSE "invoke"
    /\ UNCHANGED <<side, created, streams, streamList, i, entries, outage, ensured, reads,
                   claimed, invoked, response, inflight, trace>>

\* a producer appends an entry to a stream (XADD); not part of the process
XAdd ==
    /\ \E k \in Keys :
         /\ redis[k].len < MaxMsgs
         /\ redis' = [redis EXCEPT ![k].exists = TRUE, ![k].len = @ + 1]
    /\ UNCHANGED <<side, created, streams, streamList, pc, i, entries, ei, mi, out, outage,
                   history, inflight>>

Process ==
    \/ Start
    \/ EnsureConsumerGroupExists
    \/ AWSSetup
    \/ XReadGroupCall
    \/ InvokeStart
    \/ InvokeReturn
    \/ XAckCall

Next == Process \/ XAdd

Spec == Init /\ [][Next]_vars

\* the process is scheduled as long as it has a step to take
FairSpec == Spec /\ WF_vars(Process)

(***************************************************************************)
(* The payload of an invocation, invokeLambda line 106.                    *)
(***************************************************************************)
\* characters the keys and values of a message are made of in this model,
\* in byte order
FieldChars == <<" ", ":", "a">>

FieldStrings == UNION {[1..n -> Range(FieldChars)] : n \in 0..MaxFieldLen}

\* message.Values: the field mappings of a message
FieldMaps ==
    UNION {[K -> FieldStrings] :
             K \in {S \in SUBSET FieldStrings : Cardinality(S) <= MaxFields}}

CharRank(c) == CHOOSE r \in 1..Len(FieldChars) : FieldChars[r] = c

\* s < t as Go compares strings
RECURSIVE StrLess(_, _)
StrLess(s, t) ==
    IF t = <<>> THEN FALSE
    ELSE IF s = <<>> THEN TRUE
    ELSE IF s[1] # t[1] THEN CharRank(s[1]) < CharRank(t[1])
    ELSE StrLess(Tail(s), Tail(t))

\* the keys of a map in the order fmt prints them
RECURSIVE SortedKeys(_)
SortedKeys(K) ==
    IF K = {} THEN <<>>
    ELSE LET k == CHOOSE x \in K : \A y \in K \ {x} : StrLess(x, y)
         IN  <<k>> \o SortedKeys(K \ {k})

\* fmt's %v of a map[string]interface{} of strings: map[k1:v1 k2:v2]
RECURSIVE FormatPairs(_, _)
FormatPairs(values, ks) ==
    IF ks = <<>> THEN <<>>
    ELSE ks[1] \o <<":">> \o values[ks[1]]
         \o (IF Len(ks) > 1 THEN <<" ">> ELSE <<>>)
         \o FormatPairs(values, Tail(ks))

FormatV(values) ==
    <<"m", "a", "p", "[">> \o FormatPairs(values, SortedKeys(DOMAIN values))
    \o <<"]">>

\* fmt.Sprintf(`{"message": "%v"}`, message.Values)
Payload(values) ==
    <<"{", "\"", "m", "e", "s", "s", "a", "g", "e", "\"", ":", " ", "\"">>
    \o FormatV(values) \o <<"\"", "}">>

\* the process at rest, for the specifications of single calls
Idle ==
    /\ streams \in EnvStrings
    /\ streamList = <<>>
    /\ pc = "off"
    /\ i = 0
    /\ entries = <<>>
    /\ ei = 0
    /\ mi = 0
    /\ redis = [k \in Keys |-> NoStream]
    /\ out = <<>>
    /\ outage = 0
    /\ ensured = <<>>
    /\ reads = 0
    /\ claimed = {}
    /\ invoked = [m \in Msgs |-> 0]
    /\ response = [m \in Msgs |-> <<>>]
    /\ acks = [m \in Msgs |-> <<>>]
    /\ acked = {}
    /\ inflight = {}
    /\ trace = <<>>
    /\ created = [k \in Keys |-> <<>>]
    /\ kills = 0
    /\ lost = {}
    /\ peer = PeerOff

main == <<streams, streamList, pc, i, entries, ei, mi, redis, out, outage,
          ensured, reads, claimed, invoked, response, acks, acked, inflight,
          trace, created, kills, lost, peer>>

PayloadInit ==
    /\ Idle
    /\ streams = <<>>
    /\ fields \in FieldMaps \X FieldMaps
    /\ payload = <<>>
    /\ backlog = <<>>
    /\ batch = <<>>

\* invokeLambda, line 106, for two messages
MakePayload ==
    /\ payload = <<>>
    /\ payload' = <<Payload(fields[1]), Payload(fields[2])>>
    /\ UNCHANGED <<main, fields, backlog, batch>>

PayloadSpec == PayloadInit /\ [][MakePayload]_vars

(***************************************************************************)
(* A second instance of the process on the same server, with the same       *)
(* environment, group and consumer name. It runs the same code; its place   *)
(* and what it did are the fields of peer.                                  *)
(***************************************************************************)
PeerCur == <<peer.entries[peer.ei].Stream, peer.entries[peer.ei].Messages[peer.mi]>>

\* the variables of the first instance that the second never touches
own == <<streams, streamList, pc, i, entries, ei, mi, out, outage, history,
         inflight, kills, lost, fields, payload, backlog, batch>>

\* main, lines 20-30
PeerStart ==
    /\ peer.pc = "start"
    /\ \E urlOk \in BOOLEAN :
         peer' = IF urlOk
                 THEN [peer EXCEPT !.streamList = splitStreams(streams),
                                   !.i = 1, !.pc = "ensure", !.out = <<>>]
                 ELSE [peer EXCEPT !.pc = "fatal",
                                   !.out = <<Log("Failed to parse Redis URL", <<>>, 0, "invalid URL")>>]
    /\ UNCHANGED <<own, redis, created>>

\* main, lines 31-33, and ensureConsumerGroupExists
PeerEnsure ==
    /\ peer.pc = "ensure"
    /\ \E up \in BOOLEAN :
         LET k     == peer.streamList[peer.i]
             reply == IF up THEN XGroupCreateMkStream(redis[k], GroupStart)
                      ELSE [err |-> ConnErr, key |-> redis[k]]
             res   == EnsureResult(reply.err)
             line  == CASE res = "created" ->
                             Log("Consumer group created for stream", k, 0, "")
                        [] res = "exists" ->
                             Log("Consumer group already exists for stream, skipping creation.", k, 0, "")
                        [] OTHER ->
                             Log("Error creating consumer group", <<>>, 0, reply.err)
         IN  /\ redis' = [redis EXCEPT ![k] = reply.key]
             /\ created' = IF res = "created"
                           THEN [created EXCEPT ![k] = <<redis[k].len>>]
                           ELSE created
             /\ peer' = [peer EXCEPT
                           !.out = <<line>>,
                           !.pc = IF res = "fatal" THEN "fatal"
                                  ELSE IF peer.i < Len(peer.streamList)
                                  THEN "ensure" ELSE "session",
                           !.i = IF res # "fatal" /\ peer.i < Len(peer.streamList)
                                 THEN peer.i + 1 ELSE peer.i]
    /\ UNCHANGED own

\* main, lines 36-37
PeerAWSSetup ==
    /\ peer.pc = "session"
    /\ \E ok \in BOOLEAN :
         peer' = [peer EXCEPT !.pc = IF ok THEN "read" ELSE "panic", !.out = <<>>]
    /\ UNCHANGED <<own, redis, created>>

\* main, lines 41-52
PeerXReadGroupCall ==
    /\ peer.pc = "read"
    /\ \E up \in BOOLEAN :
         LET reply == IF up THEN XReadGroup(redis, StreamsArg(peer.streamList), Count, NoAck)
                      ELSE [err |-> ConnErr, entries |-> <<>>, db |-> redis]
             pos   == FirstFrom(reply.entries, 1)
         IN  /\ reply.err = "" => reply.entries # <<>>
             /\ redis' = reply.db
             /\ peer' = IF AfterRead(reply.err) = "continue"
                        THEN [peer EXCEPT
                                !.out = <<Log("Error reading from Redis stream", <<>>, 0, reply.err)>>,
                                !.pc = OnReadError]
                        ELSE [peer EXCEPT
                                !.out = <<>>,
                                !.entries = reply.entries,
                                !.claimed = @ \cup Range(Flatten(reply.entries)),
                                !.ei = pos[1],
                                !.mi = pos[2],
                                !.pc = IF pos = <<0, 0>> THEN "read" ELSE "invoke"]
    /\ UNCHANGED <<own, created>>

\* main, lines 57-59, and invokeLambda, lines 106-110
PeerInvokeStart ==
    /\ peer.pc = "invoke"
    /\ peer' = [peer EXCEPT
                  !.out = <<Log("Processing message ID from stream", PeerCur[1], PeerCur[2], "")>>,
                  !.invoked = @ \cup {PeerCur},
                  !.pc = "invoking"]
    /\ UNCHANGED <<own, redis, created>>

\* invokeLambda, lines 111-117, and main, lines 60-61
PeerInvokeReturn ==
    /\ peer.pc = "invoking"
    /\ \E o \in InvokeOutcomes :
         LET pos == IF OnInvokeError = "next"
                    THEN NextPos(peer.entries, peer.ei, peer.mi)
                    ELSE <<0, 0>>
             ok  == IF o.err THEN peer.succeeded
                    ELSE peer.succeeded \cup {PeerCur}
         IN  peer' = IF AfterInvoke(invokeLambda(o)) = "ack"
                     THEN [peer EXCEPT
                             !.out = <<Log("Lambda invoked successfully. StatusCode", <<>>, o.StatusCode, "")>>,
                             !.succeeded = ok,
                             !.pc = "ack"]
                     ELSE [peer EXCEPT
                             !.out = <<Log("Error invoking Lambda", <<>>, 0, "invoke error")>>,
                             !.succeeded = ok,
                             !.ei = pos[1],
                             !.mi = pos[2],
                             !.pc = IF pos = <<0, 0>> THEN "read" ELSE "invoke"]
    /\ UNCHANGED <<own, redis, created>>

\* main, lines 64-65
PeerXAckCall ==
    /\ peer.pc = "ack"
    /\ \E up \in BOOLEAN :
         LET k   == PeerCur[1]
             id  == PeerCur[2]
             pos == NextPos(peer.entries, peer.ei, peer.mi)
             err == IF up THEN "" ELSE ConnErr
         IN  /\ redis' = IF up THEN [redis EXCEPT ![k] = XAck(redis[k], id)]
                         ELSE redis
             /\ peer' = [peer EXCEPT
                           !.out = <<Log(AfterAck(err), <<>>, id, "")>>,
                           !.removed = IF up /\ id \in redis[k].pel
                                       THEN @ \cup {PeerCur} ELSE @,
                           !.ei = pos[1],
                           !.mi = pos[2],
                           !.pc = IF pos = <<0, 0>> THEN "read" ELSE "invoke"]
    /\ UNCHANGED <<own, created>>

Peer ==
    \/ PeerStart
    \/ PeerEnsure
    \/ PeerAWSSetup
    \/ PeerXReadGroupCall
    \/ PeerInvokeStart
    \/ PeerInvokeReturn
    \/ PeerXAckCall

\* both instances are started on the same server and environment
TwoInit ==
    /\ streams \in {s \in EnvStrings : Len(s) <= MaxEnvLenTwo}
    /\ streamList = <<>>
    /\ pc = "start"
    /\ i = 0
    /\ entries = <<>>
    /\ ei = 0
    /\ mi = 0
    /\ redis \in [Keys -> InitKey]
    /\ out = <<>>
    /\ outage = 0
    /\ ensured = <<>>
    /\ reads = 0
    /\ claimed = {}
    /\ invoked = [m \in Msgs |-> 0]
    /\ response = [m \in Msgs |-> <<>>]
    /\ acks = [m \in Msgs |-> <<>>]
    /\ acked = {}
    /\ inflight = {}
    /\ trace = <<>>
    /\ created = [k \in Keys |-> <<>>]
    /\ kills = 0
    /\ lost = {}
    /\ peer = [PeerOff EXCEPT !.pc = "start"]
    /\ fields = <<>>
    /\ payload = <<>>
    /\ backlog = <<>>
    /\ batch = <<>>

TwoNext == Next \/ Peer

TwoSpec == TwoInit /\ [][TwoNext]_vars

(***************************************************************************)
(* One claim call, main lines 41-47, on streams with many messages waiting. *)
(***************************************************************************)
BatchInit ==
    /\ Idle
    /\ backlog \in [Keys -> {[exists |-> TRUE, len |-> n, group |-> TRUE,
                               last |-> 0, pel |-> {}] : n \in 0..MaxBacklog}]
    /\ batch = <<>>
    /\ fields = <<>>
    /\ payload = <<>>

\* main, lines 41-47: the call returns when it fails or has messages
ClaimBatch ==
    /\ batch = <<>>
    /\ LET reply == XReadGroup(backlog, StreamsArg(splitStreams(streams)),
                               Count, NoAck)
       IN  /\ reply.err = "" => reply.entries # <<>>
           /\ batch' = <<reply>>
    /\ UNCHANGED <<main, fields, payload, backlog>>

BatchSpec == BatchInit /\ [][ClaimBatch]_vars

(***************************************************************************)
(* The process killed from outside and started again.                      *)
(***************************************************************************)
Alive == pc \in {"start", "ensure", "session", "read", "invoke", "invoking", "ack"}

\* the process is killed: it stops where it is, an invocation in flight is
\* abandoned, and the server keeps what it has
Kill ==
    /\ Alive
    /\ kills < MaxKills
    /\ kills' = kills + 1
    /\ pc' = "killed"
    /\ lost' = lost \cup {<<m, invoked[m]>> : m \in claimed \ acked}
    /\ inflight' = {}
    /\ out' = <<>>
    /\ UNCHANGED <<streams, streamList, i, entries, ei, mi, redis, outage,
                   ensured, reads, claimed, invoked, response, acks, acked,
                   trace, created, peer, fields, payload, backlog, batch>>

\* the process is started again with the same environment: main begins at
\* line 18 with nothing but what the server holds
Restart ==
    /\ pc = "killed"
    /\ pc' = "start"
    /\ streamList' = <<>>
    /\ i' = 0
    /\ entries' = <<>>
    /\ ei' = 0
    /\ mi' = 0
    /\ outage' = 0
    /\ ensured' = <<>>
    /\ reads' = 0
    /\ trace' = <<>>
    /\ out' = <<>>
    /\ UNCHANGED <<streams, redis, claimed, invoked, response, acks, acked,
                   inflight, created, side>>

KillNext == Next \/ Kill \/ Restart

KillSpec == Init /\ [][KillNext]_vars

\* a process that is started again runs as long as it has a step to take
FairKillSpec == KillSpec /\ WF_vars(Process) /\ WF_vars(Restart)

TypeOK ==
    /\ pc \in {"start", "ensure", "session", "read", "invoke", "invoking",
               "ack", "fatal", "panic"}
    /\ \A k \in Keys : redis[k].last <= redis[k].len /\ redis[k].len <= MaxMsgs

(***************************************************************************)
(* Vocabulary of the properties.                                           *)
(***************************************************************************)
\* main is between the return of Invoke for m and the XAck it owes m
AckDue(m) == pc = "ack" /\ Cur = m

Responded(m) == response[m] # <<>>
\* Invoke for m returned without error, which is what main tests
ReturnedOk(m) == Responded(m) /\ ~response[m][1].err
ReturnedErr(m) == Responded(m) /\ response[m][1].err
AckIssued(m) == acks[m] # <<>>
AckFailed(m) == AckIssued(m) /\ acks[m][Len(acks[m])] # ""
Pending(m) == m[2] \in redis[m[1]].pel

\* a response that reports a failure without an error of the call
NonSuccessStatus(o) ==
    ~o.err /\ (o.StatusCode \notin 200..299 \/ o.FunctionError)

InLoop == pc \in {"read", "invoke", "invoking", "ack"}

(***************************************************************************)
(* C1                                                                      *)
(***************************************************************************)
\* C1: an XAck call for a message has been issued if and only if the
\* invocation made for that message returned without error (the success main
\* tests for), the one exception being the moment between that return and
\* the XAck; no XAck is issued for a message whose invocation returned an
\* error or was never made, and never more often than the message was
\* invoked.
C1_AckIffInvokeSucceeded ==
    \A m \in Msgs :
        /\ AckIssued(m) => ReturnedOk(m)
        /\ (ReturnedOk(m) /\ ~AckDue(m)) => AckIssued(m)
        /\ Len(acks[m]) <= invoked[m]

\* one message was acknowledged after a success while another one, whose
\* invocation failed, was passed over
C1_Witness ==
    \E m1, m2 \in Msgs :
        /\ AckIssued(m1) /\ ReturnedOk(m1)
        /\ ReturnedErr(m2) /\ ~AckIssued(m2)
        /\ pc = "read"

(***************************************************************************)
(* C2                                                                      *)
(***************************************************************************)
\* C2: an invocation that returned an error or a non-success status leaves
\* its message unacknowledged and pending.
C2_FailedInvocationStaysPending ==
    \A m \in Msgs :
        (Responded(m) /\ (response[m][1].err \/ NonSuccessStatus(response[m][1])))
            => (~AckIssued(m) /\ ~AckDue(m) /\ Pending(m))

(***************************************************************************)
(* C3                                                                      *)
(***************************************************************************)
\* an entry of a configured stream that the group has not delivered yet
Undelivered(k, n) ==
    /\ k \in Keys
    /\ redis[k].group
    /\ redis[k].last < n
    /\ n <= redis[k].len

\* C3: whatever the number of configured streams, once a claim call has been
\* issued its STREAMS argument names every configured stream as a key and
\* gives each of them the ID ">".
C3_ClaimReadsAllStreams ==
    reads = 1 =>
        LET p == ParseStreams(StreamsArg(streamList))
        IN  /\ p.balanced
            /\ p.keys = streamList
            /\ \A j \in 1..Len(p.ids) : p.ids[j] = GT

(***************************************************************************)
(* C4                                                                      *)
(***************************************************************************)
\* C4 as stated: a claimed message is always either acknowledged or
\* pending, a message whose invocation returned an error is pending, and a
\* message whose invocation succeeded is acknowledged - by the time main has
\* issued the one XAck it owes the message, after which it never comes back
\* to it.
C4_SuccessLeadsToAcknowledged ==
    \A m \in claimed :
        /\ (m \in acked) # Pending(m)
        /\ ReturnedErr(m) => Pending(m)
        /\ (ReturnedOk(m) /\ ~AckDue(m)) => m \in acked

\* C4, amended: a claimed message is always either acknowledged or pending;
\* a message whose invocation returned an error is pending; for a message
\* whose invocation succeeded main issues the XAck call, and the message is
\* acknowledged if that call succeeded and pending if it failed.
C4_ClaimedIsAckedOrPending ==
    \A m \in claimed :
        /\ (m \in acked) # Pending(m)
        /\ ReturnedErr(m) => Pending(m)
        /\ (ReturnedOk(m) /\ ~AckDue(m)) => AckIssued(m)
        /\ AckIssued(m) => (AckFailed(m) <=> Pending(m))

\* a message was invoked with success and stayed pending because its XAck
\* failed, while another one was acknowledged
C4_Witness ==
    \E m1, m2 \in claimed :
        /\ ReturnedOk(m1) /\ AckFailed(m1) /\ Pending(m1)
        /\ ReturnedOk(m2) /\ m2 \in acked /\ ~Pending(m2)

(***************************************************************************)
(* C5                                                                      *)
(***************************************************************************)
\* C5: the messages of a batch are invoked in the order XReadGroup returned
\* them: the invocations made so far are the first messages of the batch in
\* returned order, the message about to be invoked is the next one, the
\* batch is left only when all of it has been invoked, and an invocation
\* starts only when no other one is in flight.
C5_BatchOrder ==
    LET all == Flatten(entries)
    IN  /\ Len(trace) <= Len(all)
        /\ trace = SubSeq(all, 1, Len(trace))
        /\ pc = "invoke" => (Len(trace) < Len(all) /\ Cur = all[Len(trace) + 1])
        /\ pc \in {"invoking", "ack"} => Cur = trace[Len(trace)]
        /\ pc = "read" => trace = all
        /\ pc = "invoking" => inflight = {Cur}
        /\ pc # "invoking" => inflight = {}
        /\ \A j \in 1..(Len(trace) - 1) : Responded(trace[j])

\* a batch of two messages of which the second is being invoked
C5_Witness ==
    /\ pc = "invoking"
    /\ Len(trace) = 2
    /\ Len(Flatten(entries)) = 2
    /\ trace[1][2] < trace[2][2]

(***************************************************************************)
(* C6                                                                      *)
(***************************************************************************)
IsReadError(o) ==
    o # <<>> /\ o[Len(o)].line = "Error reading from Redis stream"

\* what the process and the group know of the messages
MsgState ==
    <<[k \in Keys |-> <<redis[k].last, redis[k].pel>>], claimed, invoked,
      response, acks, acked, inflight, entries, ei, mi>>

\* C6: a step that ends with a failed claim as the last thing main did - the
\* failing XReadGroup call itself, or an append to a stream while main is
\* about to call again - leaves main at the claim call, not terminated, and
\* changes no message's state: nothing is claimed, invoked or acknowledged.
C6_ReadFailureIsolated ==
    [][(pc = "read" /\ IsReadError(out'))
          => (pc' = "read" /\ MsgState' = MsgState)]_vars

\* a claim failed on an unreachable server after a batch had been processed
\* and while an entry was waiting to be claimed
C6_Witness ==
    /\ pc = "read"
    /\ IsReadError(out)
    /\ out[1].err = ConnErr
    /\ claimed # {}
    /\ \E k \in Keys : redis[k].last < redis[k].len

(***************************************************************************)
(* C7                                                                      *)
(***************************************************************************)
\* C7: the server is unreachable for at most MaxOutage consecutive claim
\* calls; main keeps calling, every entry appended to a configured stream
\* behind the group's cursor is eventually claimed, and no message is
\* invoked twice.
C7_ClaimsAfterOutage ==
    /\ [](\A m \in Msgs : invoked[m] <= 1)
    /\ [](outage > 0 => pc = "read")
    /\ \A j \in 1..(MaxEnvLen + 1), n \in 1..MaxMsgs :
         (InLoop /\ j <= Len(streamList) /\ Undelivered(streamList[j], n))
            ~> (j <= Len(streamList) /\ <<streamList[j], n>> \in claimed)

(***************************************************************************)
(* C8                                                                      *)
(***************************************************************************)
\* C8: when the server answers an ensure-group call with "already exists",
\* main does not terminate, the server's streams and groups (cursor and
\* pending set included) are as before, and main goes on to the next
\* configured stream or, after the last one, to the session and the loop.
C8_AlreadyExistsIsSuccess ==
    [][(pc = "ensure" /\ Len(ensured') = Len(ensured) + 1
          /\ ensured'[Len(ensured')] = BusyGroupErr)
       => /\ pc' # "fatal"
          /\ redis' = redis
          /\ IF i < Len(streamList)
             THEN pc' = "ensure" /\ i' = i + 1
             ELSE pc' = "session"]_vars

\* the same stream is configured twice: the first call created the group,
\* the second was answered "already exists", and main reached the loop
C8_Witness ==
    /\ pc = "read"
    /\ \E j1, j2 \in 1..Len(ensured) :
         /\ j1 < j2
         /\ streamList[j1] = streamList[j2]
         /\ ensured[j1] = ""
         /\ ensured[j2] = BusyGroupErr

(***************************************************************************)
(* C9                                                                      *)
(***************************************************************************)
EnsureOk(err) == err = "" \/ err = BusyGroupErr

\* C9: a claim call has been issued, or main is in the loop, only if
\* ensure-group was answered ok or already-exists for every configured
\* stream; and once ensure-group was answered with another error main is
\* terminated and has issued no claim, no invocation and no acknowledgment.
C9_NoDispatchWithoutGroups ==
    /\ (reads = 1 \/ InLoop) =>
          /\ Len(ensured) = Len(streamList)
          /\ \A j \in 1..Len(ensured) : EnsureOk(ensured[j])
    /\ (\E j \in 1..Len(ensured) : ~EnsureOk(ensured[j])) =>
          /\ pc = "fatal"
          /\ reads = 0
          /\ claimed = {}
          /\ \A m \in Msgs : invoked[m] = 0 /\ acks[m] = <<>>

\* ensure-group succeeded on the first stream and failed on the second
C9_Witness ==
    /\ pc = "fatal"
    /\ Len(ensured) = 2
    /\ EnsureOk(ensured[1])
    /\ ensured[2] = ConnErr

(***************************************************************************)
(* C10                                                                     *)
(***************************************************************************)
\* C10: the step in which the XAck call of a message returns an error logs
\* an error, does not log the message as acknowledged, and leaves the
\* message pending.
C10_AckFailureLogged ==
    [][(pc = "ack" /\ acks'[Cur] # acks[Cur] /\ acks'[Cur][Len(acks'[Cur])] # "")
       => /\ \E j \in 1..Len(out') : out'[j].err # ""
          /\ \A j \in 1..Len(out') :
                out'[j].line # "Message ID acknowledged in consumer group"
          /\ Cur[2] \in redis'[Cur[1]].pel]_vars

Older(m) == created[m[1]] # <<>> /\ m[2] <= created[m[1]][1]

\* C12: an entry that was in a stream when main created the group on it is
\* never claimed, invoked or acknowledged by the process.
C12_NewMessagesOnly ==
    \A m \in Msgs :
        Older(m) => /\ m \notin claimed
                    /\ invoked[m] = 0
                    /\ acks[m] = <<>>
                    /\ m \notin acked
                    /\ ~Pending(m)

\* the group was created on a stream that held an entry; a later entry was
\* claimed and invoked, the older one was not
C12_Witness ==
    \E m1, m2 \in Msgs :
        /\ m1[1] = m2[1]
        /\ Older(m1) /\ ~Older(m2)
        /\ m2 \in claimed /\ invoked[m2] = 1
        /\ pc = "read"

(***************************************************************************)
(* C13                                                                     *)
(***************************************************************************)
\* C13: when the process has been killed, every message it claimed and that
\* was not acknowledged is in the pending set of its group, and stays there
\* afterwards.
C13_KilledLeavesPending ==
    /\ pc = "killed" => \A m \in claimed : m \notin acked => Pending(m)
    /\ \A x \in lost : Pending(x[1])

\* the process was killed between a successful invocation and its XAck,
\* and the message is pending
C13_Witness ==
    /\ pc = "killed"
    /\ \E x \in lost :
         /\ ReturnedOk(x[1])
         /\ ~AckIssued(x[1])
         /\ Pending(x[1])

C15_PayloadFaithful ==
    (payload # <<>> /\ fields[1] # fields[2]) => payload[1] # payload[2]

(***************************************************************************)
(* C16                                                                     *)
(***************************************************************************)
\* C16: every message of a claimed batch is invoked exactly once whatever
\* became of the messages before it: no claimed message is invoked twice,
\* the messages of the batch up to the current one have been invoked once,
\* the batch is left only when all its messages have been, and once in the
\* loop the process never leaves it.
C16_FailuresIsolated ==
    /\ [](/\ \A m \in claimed : invoked[m] <= 1
          /\ \A j \in 1..Len(trace) : invoked[trace[j]] = 1
          /\ pc = "read" => \A j \in 1..Len(Flatten(entries)) :
                               invoked[Flatten(entries)[j]] = 1)
    /\ [][InLoop => InLoop']_vars

\* a batch of two whose first invocation failed and whose second was made
C16_Witness ==
    /\ Len(Flatten(entries)) = 2
    /\ ReturnedErr(Flatten(entries)[1])
    /\ invoked[Flatten(entries)[2]] = 1
    /\ pc = "read"

(***************************************************************************)
(* C17                                                                     *)
(***************************************************************************)
\* C17: at most one invocation is in flight, and while one is in flight the
\* process does nothing else; when an invocation is about to start or has
\* started, the XAck of every message invoked without error before it has
\* been issued; and the process is at the claim call only when every message
\* of the current batch has been invoked and its invocation has returned.
C17_StrictlySequential ==
    /\ Cardinality(inflight) <= 1
    /\ inflight # {} => pc = "invoking"
    /\ pc \in {"invoke", "invoking"} =>
         \A m \in claimed : ReturnedOk(m) => AckIssued(m)
    /\ pc = "read" =>
         \A j \in 1..Len(Flatten(entries)) :
            invoked[Flatten(entries)[j]] >= 1 /\ Responded(Flatten(entries)[j])

\* the second invocation of a batch in flight after the first succeeded
C17_Witness ==
    /\ pc = "invoking"
    /\ Len(trace) = 2
    /\ inflight = {trace[2]}
    /\ ReturnedOk(trace[1])
    /\ AckIssued(trace[1])

====
